---- MODULE Spec2Model ----
(***************************************************************************)
(* Model of src/src/PortfolioPage.tsx: the page composer's two UI flags,   *)
(* the preloader timer, the mobile-menu overlay, the navigation controls,  *)
(* the listener registrations of CustomCursor and MagneticButton, the      *)
(* scroll-triggered reveals and the magnetic-button target computation.    *)
(*                                                                         *)
(* Time is counted in tenths of a second.                                  *)
(***************************************************************************)
EXTENDS Integers, Sequences, FiniteSets, TLC

VARIABLES
    \* ---- PortfolioPage (page composer) ----
    loading,            \* React state `loading`
    isMobileMenuOpen,   \* React state `isMobileMenuOpen`
    menuOverlay,        \* the overlay under AnimatePresence: "absent", "present", "exiting"
    elapsed,            \* tenths of a second since the page mounted
    innerWidth,         \* window.innerWidth
    lastControl,        \* the control whose handler ran last ("none" before any)
    scrollRequest,      \* id of the element the last handler scrolled into view ("none" if it did not)
    opened,             \* url the last handler passed to window.open ("none" if it did not)
    writers,            \* per flag, the controls whose handlers have called its setter
    \* ---- CustomCursor / MagneticButton registrations ----
    cursorMount,        \* CustomCursor: [mounted, coarse (matchMedia result at mount), gen (mounts so far)]
    buttonMount,        \* per MagneticButton: [mounted, gen (mounts so far)]
    windowListeners,    \* set of <<event type, handler>> registered on window
    tickerListeners,    \* set of handlers registered with gsap.ticker
    elementListeners,   \* set of <<button, event type, handler>> registered on button elements
    attached,           \* per ref: whether ref.current is an element when the callbacks run
    \* ---- scroll-triggered reveals ----
    scrollY,            \* vertical scroll position of the window
    tlTime,             \* playhead of NarrativeTicker's scrubbed timeline tl
    zone,               \* per reveal: where its ScrollTrigger last saw the scroll position
    tween,              \* per reveal: [t, dir], the playhead of its tween and its direction
    \* ---- one MagneticButton under the pointer ----
    pointer,            \* <<clientX, clientY>> of the mouse, in px
    hovered,            \* whether the pointer is over the button
    quick,              \* the quickTo tweens of x and y: [from, to, t]
    lastEvent,          \* the last mouse event the button handled, with the rectangle it measured
    events,             \* number of mouse events handled
    \* ---- CustomCursor while active ----
    mouse,              \* the closure's `mouse`: <<x, y>> in px
    pos,                \* the closure's `pos`: <<x, y>> in 1/PosUnits px
    dotAt,              \* the x, y last written to the dot (cursorRef)
    ringAt,             \* the x, y last written to the ring (followerRef), in 1/PosUnits px
    look,               \* the scale / blend targets last given to the two markers
    clientAt,           \* where the pointer really is: <<clientX, clientY>>
    viewTop,            \* how far the page is scrolled under the pointer
    frames,             \* 60 Hz frames the ticker has accounted for
    \* ---- the animated sections ----
    sectionMount,       \* per section: [mounted, mobile (isMobile as read at mount)]
    animations,         \* the animations the mounted sections have registered
    tickerWidths,       \* NarrativeTicker: [scrollWidth of the container, offsetWidth of the section]
    tickerPin,          \* NarrativeTicker: scroll distance of the pin (end - start)
    tickerXEnd,         \* NarrativeTicker: end value of the container's x in tl
    tickerScroll,       \* NarrativeTicker: how far the window has scrolled past the pin's start
    tickerShown,        \* NarrativeTicker: the scroll offset tl's scrubbed playhead shows
    \* ---- HeroSection after mount ----
    heroTime,           \* playhead of the entrance timeline, in hundredths of a second
    heroOrder,          \* the steps of the entrance timeline that have started, in the order they started
    heroScroll,         \* how far the window has scrolled through the hero, in quarters of its height
    heroShown           \* the scroll position the distortion's scrubbed playhead shows

pageVars == <<loading, isMobileMenuOpen, menuOverlay, elapsed, innerWidth,
              lastControl, scrollRequest, opened, writers>>
lifeVars == <<cursorMount, buttonMount, windowListeners, tickerListeners,
              elementListeners, attached>>
revealVars == <<scrollY, tlTime, zone, tween>>
magnetVars == <<pointer, hovered, quick, lastEvent, events>>
cursorVars == <<mouse, pos, dotAt, ringAt, look, clientAt, viewTop, frames>>
sectionVars == <<sectionMount, animations, tickerWidths, tickerPin, tickerXEnd,
                 tickerScroll, tickerShown>>
heroVars == <<heroTime, heroOrder, heroScroll, heroShown>>
vars == <<pageVars, lifeVars, revealVars, magnetVars, cursorVars, sectionVars, heroVars>>

\* ------------------------------------------------------------------------
\* Bounds
\* ------------------------------------------------------------------------
MaxTime == 31      \* the clock stops here (tenths of a second)
MaxMounts == 2     \* mounts of one component per behaviour
FrameStep == 5     \* time between two frames of the render loop (tenths of a second)
MaxEvents == 3     \* mouse events handled by the button per behaviour
MaxFrames == 4     \* 60 Hz frames the cursor's ticker runs for per behaviour

\* ------------------------------------------------------------------------
\* Literal data of the page
\* ------------------------------------------------------------------------
PreloaderDuration == 8     \* transition.duration: 0.8
\* Variant: the transition starts without delay.
PreloaderDelay_None == PreloaderDuration - PreloaderDuration
PreloaderDelay == 20       \* transition.delay: 2
MdBreakpoint == 768        \* tailwind `md:` prefix, window.innerWidth < 768

MobileNavItems ==
    << [name |-> "Home",    id |-> "portfolio-root"],
       [name |-> "Work",    id |-> "work"],
       [name |-> "Process", id |-> "process"],
       [name |-> "Contact", id |-> "contact"] >>

DesktopNavItems ==
    << [name |-> "Home",    id |-> "portfolio-root"],
       [name |-> "Work",    id |-> "work"],
       [name |-> "Process", id |-> "process"],
       [name |-> "Contact", id |-> "contact"] >>

services ==
    << [id |-> "01", name |-> "App Development"],
       [id |-> "02", name |-> "Web Development"],
       [id |-> "03", name |-> "AI & ML"],
       [id |-> "04", name |-> "Robotics & IoT"] >>

projects ==
    << [title |-> "ZON APP",     category |-> "Focus",       tags |-> <<"App", "Productivity">>,
        link |-> "https://vrn7712.github.io/zon-website/"],
       [title |-> "ALERT DRIVE", category |-> "Robotics",    tags |-> <<"IoT", "Sensors">>,
        link |-> "https://vrn7712.github.io/AlertDrive/"],
       [title |-> "SPEEDBUMP",   category |-> "Engineering", tags |-> <<"Innovation", "Physics">>,
        link |-> "https://adaptive-speedbump.netlify.app/"] >>

Widths == {MdBreakpoint - 1, MdBreakpoint}

\* ------------------------------------------------------------------------
\* Rendering: the JSX of the page as a flat list of nodes in document order.
\* A node is [el, id, text, row]: its kind, its id attribute ("" if none),
\* its text content ("" if none) and the index of the list entry it belongs
\* to (0 if none).
\* ------------------------------------------------------------------------
Node(el, id, text, row) == [el |-> el, id |-> id, text |-> text, row |-> row]

RECURSIVE Concat(_)
Concat(ss) == IF ss = <<>> THEN <<>> ELSE Head(ss) \o Concat(Tail(ss))

RenderPreloader == << Node("preloader", "", "Portfolio (c)2025", 0) >>

RenderMobileNavButton(i) ==
    << Node("mobile-nav-button", "", MobileNavItems[i].name, i) >>

RenderMobileMenu ==
    << Node("mobile-menu", "", "", 0), Node("close-button", "", "", 0) >>
    \o Concat([i \in 1..Len(MobileNavItems) |-> RenderMobileNavButton(i)])

RenderGlobals ==
    << Node("style", "", "", 0),
       Node("filter", "noise", "", 0),
       Node("orbs", "", "", 0),
       Node("grid", "", "", 0),
       Node("filter", "distort", "", 0),
       Node("cursor", "", "", 0),
       Node("follower", "", "", 0) >>

RenderDesktopNavButton(i) ==
    << Node("desktop-nav-button", "", DesktopNavItems[i].name, i) >>

RenderHeader ==
    << Node("header", "", "", 0), Node("brand", "", "Vrn.", 0) >>
    \o Concat([i \in 1..Len(DesktopNavItems) |-> RenderDesktopNavButton(i)])
    \o << Node("hamburger", "", "", 0) >>

RenderHero ==
    << Node("section", "", "", 0), Node("magnetic-button", "", "View Works", 0) >>

RenderServiceItem(i) ==
    << Node("service-item", "", "", i),
       Node("span", "", services[i].id, i),
       Node("service-name", "", services[i].name, i) >>

\* Variant: the services section carries no id.
RenderServices_NoId ==
    << Node("section", "", "", 0), Node("h2", "", "Capabilities", 0) >>
    \o Concat([i \in 1..Len(services) |-> RenderServiceItem(i)])

RenderServices ==
    << Node("section", "process", "", 0), Node("h2", "", "Capabilities", 0) >>
    \o Concat([i \in 1..Len(services) |-> RenderServiceItem(i)])

RenderTag(idx, tIdx) == Node("tag", "", projects[idx].tags[tIdx], idx)

RenderProjectRow(idx) ==
    << Node("project-row", "", "", idx),
       Node("project-title", "", projects[idx].title, idx),
       Node("project-title", "", projects[idx].title, idx) >>
    \o [tIdx \in 1..Len(projects[idx].tags) |-> RenderTag(idx, tIdx)]
    \o << Node("magnetic-button", "", "Live Demo", idx) >>

\* Variant: the last project is not rendered.
RenderSelectedWorks_DropsLast ==
    << Node("section", "work", "", 0), Node("h2", "", "SELECTED WORKS", 0) >>
    \o Concat([idx \in 1..(Len(projects) - 1) |-> RenderProjectRow(idx)])

RenderSelectedWorks ==
    << Node("section", "work", "", 0), Node("h2", "", "SELECTED WORKS", 0) >>
    \o Concat([idx \in 1..Len(projects) |-> RenderProjectRow(idx)])

RenderMain ==
    RenderHero \o RenderServices
    \o << Node("section", "", "", 0) >>          \* NarrativeTicker
    \o RenderSelectedWorks
    \o << Node("section", "", "", 0) >>          \* AwardsSection
    \o << Node("footer", "contact", "", 0) >>    \* ContactFooter

\* The tree PortfolioPage returns for given flag / overlay values.
RenderPage(ld, ov) ==
    << Node("div", "portfolio-root", "", 0) >>
    \o (IF ld THEN RenderPreloader ELSE <<>>)
    \o (IF ov # "absent" THEN RenderMobileMenu ELSE <<>>)
    \o RenderGlobals \o RenderHeader \o RenderMain

\* The tree for every value of the state it depends on, and the current one.
PageTrees == [ld \in BOOLEAN, ov \in {"absent", "present", "exiting"} |-> RenderPage(ld, ov)]
DOM == PageTrees[loading, menuOverlay]

\* document.getElementById(id): the position in the document of the first
\* element with that id, 0 for null.
GetElementById(dom, id) ==
    LET matches == {i \in 1..Len(dom) : dom[i].id = id}
    IN IF matches = {} THEN 0
       ELSE CHOOSE i \in matches : \A j \in matches : i <= j

\* document.getElementById(id)?.scrollIntoView(...): the id of the element
\* that is scrolled to, "none" when the lookup gave null.
ScrollIntoView(dom, id) ==
    LET e == GetElementById(dom, id) IN IF e = 0 THEN "none" ELSE dom[e].id

\* Whether a control can be activated by the user in the current state.
Rendered(el) == LET dom == DOM IN \E i \in 1..Len(dom) : dom[i].el = el
HamburgerShown == innerWidth < MdBreakpoint     \* md:hidden
DesktopNavShown == innerWidth >= MdBreakpoint   \* hidden md:flex

\* ------------------------------------------------------------------------
\* PortfolioPage: state, setters and handlers
\* ------------------------------------------------------------------------
\* A control is <<kind, index>>; index 0 for controls that are not list entries.
NoControl == <<"none", 0>>

\* React.useState(true) / React.useState(false); nothing has been clicked.
PageInit ==
    /\ loading = TRUE
    /\ isMobileMenuOpen = FALSE
    /\ menuOverlay = "absent"
    /\ elapsed = 0
    /\ innerWidth \in Widths
    /\ lastControl = NoControl
    /\ scrollRequest = "none"
    /\ opened = "none"
    /\ writers = [loading |-> {}, isMobileMenuOpen |-> {}]

\* setLoading(v), called from the handler of control c.
setLoading(c, v) ==
    /\ loading' = v
    /\ writers' = [writers EXCEPT !.loading = @ \cup {c}]

\* AnimatePresence around `isMobileMenuOpen && <motion.div exit=...>`:
\* the overlay is mounted while the flag is true and, once the flag turns
\* false, stays mounted until its exit transition has run.
Presence(open, ov) ==
    IF open THEN "present"
    ELSE IF ov = "absent" THEN "absent" ELSE "exiting"

\* setIsMobileMenuOpen(v), called from the handler of control c, and the
\* re-render that follows.
setIsMobileMenuOpen(c, v) ==
    /\ isMobileMenuOpen' = v
    /\ menuOverlay' = Presence(v, menuOverlay)
    /\ writers' = [writers EXCEPT !.isMobileMenuOpen = @ \cup {c}]

\* Phase of the Preloader's motion.div at a given time since mount.
PreloaderPhase(t) ==
    IF t < PreloaderDelay THEN "hold"
    ELSE IF t < PreloaderDelay + PreloaderDuration THEN "transition"
    ELSE "complete"

\* The render loop advances time by a tenth of a second.  A mounted
\* Preloader whose transition is over reports completion before time moves on.
Tick ==
    /\ elapsed < MaxTime
    /\ ~(loading /\ PreloaderPhase(elapsed) = "complete")
    /\ elapsed' = elapsed + 1
    /\ UNCHANGED <<loading, isMobileMenuOpen, menuOverlay, innerWidth,
                   lastControl, scrollRequest, opened, writers>>

\* Preloader: onAnimationComplete={onComplete}, onComplete = () => setLoading(false).
onComplete ==
    /\ loading
    /\ PreloaderPhase(elapsed) = "complete"
    /\ setLoading(<<"preloader", 0>>, FALSE)
    /\ lastControl' = <<"preloader", 0>>
    /\ scrollRequest' = "none"
    /\ opened' = "none"
    /\ UNCHANGED <<isMobileMenuOpen, menuOverlay, elapsed, innerWidth>>

\* Variant: opening the menu also dismisses the preloader.
ClickHamburger_DismissesPreloader ==
    /\ HamburgerShown
    /\ isMobileMenuOpen' = TRUE
    /\ menuOverlay' = Presence(TRUE, menuOverlay)
    /\ loading' = FALSE
    /\ writers' = [writers EXCEPT !.isMobileMenuOpen = @ \cup {<<"hamburger", 0>>},
                                  !.loading = @ \cup {<<"hamburger", 0>>}]
    /\ lastControl' = <<"hamburger", 0>>
    /\ scrollRequest' = "none"
    /\ opened' = "none"
    /\ UNCHANGED <<elapsed, innerWidth>>

\* Hamburger button: onClick={() => setIsMobileMenuOpen(true)}.
ClickHamburger ==
    /\ HamburgerShown
    /\ setIsMobileMenuOpen(<<"hamburger", 0>>, TRUE)
    /\ lastControl' = <<"hamburger", 0>>
    /\ scrollRequest' = "none"
    /\ opened' = "none"
    /\ UNCHANGED <<loading, elapsed, innerWidth>>

\* Variant: closing the menu also shows the preloader again.
ClickClose_RestartsPreloader ==
    /\ Rendered("close-button")
    /\ isMobileMenuOpen' = FALSE
    /\ menuOverlay' = Presence(FALSE, menuOverlay)
    /\ loading' = TRUE
    /\ writers' = [writers EXCEPT !.isMobileMenuOpen = @ \cup {<<"close-button", 0>>},
                                  !.loading = @ \cup {<<"close-button", 0>>}]
    /\ lastControl' = <<"close-button", 0>>
    /\ scrollRequest' = "none"
    /\ opened' = "none"
    /\ UNCHANGED <<elapsed, innerWidth>>

\* Close button of the overlay: onClick={() => setIsMobileMenuOpen(false)}.
ClickClose ==
    /\ Rendered("close-button")
    /\ setIsMobileMenuOpen(<<"close-button", 0>>, FALSE)
    /\ lastControl' = <<"close-button", 0>>
    /\ scrollRequest' = "none"
    /\ opened' = "none"
    /\ UNCHANGED <<loading, elapsed, innerWidth>>

\* Variant: an overlay entry that scrolls but leaves the menu open.
ClickMobileNav_StaysOpen(i) ==
    /\ Rendered("mobile-nav-button")
    /\ scrollRequest' = ScrollIntoView(DOM, MobileNavItems[i].id)
    /\ lastControl' = <<"mobile-nav", i>>
    /\ opened' = "none"
    /\ UNCHANGED <<loading, isMobileMenuOpen, menuOverlay, elapsed, innerWidth, writers>>

\* Overlay navigation entry i: scrollIntoView, then setIsMobileMenuOpen(false).
ClickMobileNav(i) ==
    /\ Rendered("mobile-nav-button")
    /\ scrollRequest' = ScrollIntoView(DOM, MobileNavItems[i].id)
    /\ setIsMobileMenuOpen(<<"mobile-nav", i>>, FALSE)
    /\ lastControl' = <<"mobile-nav", i>>
    /\ opened' = "none"
    /\ UNCHANGED <<loading, elapsed, innerWidth>>

\* Variant: a header entry that also closes the menu.
ClickDesktopNav_ClosesMenu(i) ==
    /\ DesktopNavShown
    /\ scrollRequest' = ScrollIntoView(DOM, DesktopNavItems[i].id)
    /\ setIsMobileMenuOpen(<<"desktop-nav", i>>, FALSE)
    /\ lastControl' = <<"desktop-nav", i>>
    /\ opened' = "none"
    /\ UNCHANGED <<loading, elapsed, innerWidth>>

\* Header navigation entry i: scrollIntoView only.
ClickDesktopNav(i) ==
    /\ DesktopNavShown
    /\ scrollRequest' = ScrollIntoView(DOM, DesktopNavItems[i].id)
    /\ lastControl' = <<"desktop-nav", i>>
    /\ opened' = "none"
    /\ UNCHANGED <<loading, isMobileMenuOpen, menuOverlay, elapsed, innerWidth, writers>>

\* Hero "View Works" button: scrolls to 'work'.
ClickViewWorks ==
    /\ scrollRequest' = ScrollIntoView(DOM, "work")
    /\ lastControl' = <<"view-works", 0>>
    /\ opened' = "none"
    /\ UNCHANGED <<loading, isMobileMenuOpen, menuOverlay, elapsed, innerWidth, writers>>

\* "Live Demo" button of project row idx: window.open(work.link, '_blank').
ClickLiveDemo(idx) ==
    /\ opened' = projects[idx].link
    /\ lastControl' = <<"live-demo", idx>>
    /\ scrollRequest' = "none"
    /\ UNCHANGED <<loading, isMobileMenuOpen, menuOverlay, elapsed, innerWidth, writers>>

\* The overlay's exit transition ends and AnimatePresence removes it.
ExitComplete ==
    /\ menuOverlay = "exiting"
    /\ menuOverlay' = "absent"
    /\ UNCHANGED <<loading, isMobileMenuOpen, elapsed, innerWidth,
                   lastControl, scrollRequest, opened, writers>>

\* The window is resized across the md breakpoint.
Resize ==
    /\ innerWidth' \in Widths \ {innerWidth}
    /\ UNCHANGED <<loading, isMobileMenuOpen, menuOverlay, elapsed,
                   lastControl, scrollRequest, opened, writers>>

\* ------------------------------------------------------------------------
\* CustomCursor and MagneticButton: what their useGSAP callbacks register
\* and what the returned cleanups remove.  A handler is <<name, owner, gen>>:
\* the closure created by mount number gen of component owner.
\* ------------------------------------------------------------------------
Buttons == {<<"view-works", 0>>} \cup {<<"live-demo", idx>> : idx \in 1..Len(projects)}
CursorOwner == <<"cursor", 0>>

Handler(name, owner, gen) == <<name, owner, gen>>

\* Variant: no matchMedia check.
CursorRegisters_NoCoarseCheck(coarse, cursor, follower) == cursor /\ follower

\* CustomCursor's callback: returns early on a coarse pointer or a missing
\* marker; otherwise adds a ticker callback and a window mousemove listener.
CursorRegisters(coarse, cursor, follower) == ~coarse /\ cursor /\ follower

CursorTicker(coarse, cursor, follower, gen) ==
    IF CursorRegisters(coarse, cursor, follower)
    THEN {Handler("ticker", CursorOwner, gen)} ELSE {}

CursorWindow(coarse, cursor, follower, gen) ==
    IF CursorRegisters(coarse, cursor, follower)
    THEN {<<"mousemove", Handler("moveCursor", CursorOwner, gen)>>} ELSE {}

\* MagneticButton's callback: returns early without element or with
\* hoverEffect off; otherwise adds mousemove and mouseleave to the element.
ButtonListeners(b, el, hoverEffect, gen) ==
    IF ~el \/ ~hoverEffect THEN {}
    ELSE {<<b, "mousemove", Handler("mouseMove", b, gen)>>,
          <<b, "mouseleave", Handler("mouseLeave", b, gen)>>}

\* The refs the callbacks test before use.  The page renders their elements
\* unconditionally, so all are attached when it runs; no caller passes
\* hoverEffect, so it keeps its default.
RefNames == {"cursor", "follower", "button", "title", "tickerContainer", "tickerSection"}
AllAttached == [r \in RefNames |-> TRUE]
hoverEffectDefault == TRUE

\* Before CustomCursor and the buttons have mounted.
Unmounted ==
    /\ cursorMount = [mounted |-> FALSE, coarse |-> FALSE, gen |-> 0]
    /\ buttonMount = [b \in Buttons |-> [mounted |-> FALSE, gen |-> 0]]
    /\ windowListeners = {}
    /\ tickerListeners = {}
    /\ elementListeners = {}

LifeInit == attached = AllAttached /\ Unmounted

\* CustomCursor mounts: useGSAP runs the callback once.
MountCursor(coarse) ==
    /\ ~cursorMount.mounted
    /\ cursorMount.gen < MaxMounts
    /\ LET gen == cursorMount.gen + 1 IN
        /\ cursorMount' = [mounted |-> TRUE, coarse |-> coarse, gen |-> gen]
        /\ tickerListeners' = tickerListeners
                \cup CursorTicker(coarse, attached["cursor"], attached["follower"], gen)
        /\ windowListeners' = windowListeners
                \cup CursorWindow(coarse, attached["cursor"], attached["follower"], gen)
    /\ UNCHANGED <<buttonMount, elementListeners, attached>>

\* Variant: the cleanup forgets gsap.ticker.remove(ticker).
UnmountCursor_KeepsTicker ==
    /\ cursorMount.mounted
    /\ cursorMount' = [cursorMount EXCEPT !.mounted = FALSE]
    /\ windowListeners' = windowListeners
            \ CursorWindow(cursorMount.coarse, attached["cursor"], attached["follower"], cursorMount.gen)
    /\ UNCHANGED <<buttonMount, elementListeners, tickerListeners, attached>>

\* CustomCursor unmounts: the context reverts and runs the returned cleanup
\* (removeEventListener(moveCursor), gsap.ticker.remove(ticker)); an early
\* return registered no cleanup.
UnmountCursor ==
    /\ cursorMount.mounted
    /\ cursorMount' = [cursorMount EXCEPT !.mounted = FALSE]
    /\ windowListeners' = windowListeners
            \ CursorWindow(cursorMount.coarse, attached["cursor"], attached["follower"], cursorMount.gen)
    /\ tickerListeners' = tickerListeners
            \ CursorTicker(cursorMount.coarse, attached["cursor"], attached["follower"], cursorMount.gen)
    /\ UNCHANGED <<buttonMount, elementListeners, attached>>

MountButton(b) ==
    /\ ~buttonMount[b].mounted
    /\ buttonMount[b].gen < MaxMounts
    /\ LET gen == buttonMount[b].gen + 1 IN
        /\ buttonMount' = [buttonMount EXCEPT ![b] = [mounted |-> TRUE, gen |-> gen]]
        /\ elementListeners' = elementListeners
                \cup ButtonListeners(b, attached["button"], hoverEffectDefault, gen)
    /\ UNCHANGED <<cursorMount, windowListeners, tickerListeners, attached>>

UnmountButton(b) ==
    /\ buttonMount[b].mounted
    /\ buttonMount' = [buttonMount EXCEPT ![b].mounted = FALSE]
    /\ elementListeners' = elementListeners
            \ ButtonListeners(b, attached["button"], hoverEffectDefault, buttonMount[b].gen)
    /\ UNCHANGED <<cursorMount, windowListeners, tickerListeners, attached>>

\* ------------------------------------------------------------------------
\* Scroll-triggered reveals: ServicesSection, NarrativeTicker, SelectedWorks
\* ------------------------------------------------------------------------
NumTickerItems == 14    \* elements with class ticker-item in NarrativeTicker
InnovativeItem == 6     \* the ticker-item that also has class reveal-innovative

\* One tween with its own ScrollTrigger per reveal.
Reveals ==
    {<<"services", 0>>, <<"reveal-innovative", 0>>}
    \cup {<<"project-row", idx>> : idx \in 1..Len(projects)}
    \cup {<<"ticker-item", k>> : k \in 1..NumTickerItems}

\* The reveals whose trigger is measured against tl (containerAnimation: tl).
InContainer(r) == r[1] \in {"ticker-item", "reveal-innovative"}

\* Duration of tl: its one tween has the default duration of 0.5 s.  Container
\* triggers are measured on tl's playhead, in tenths of a second.
TlDuration == 5

\* Layout.  Vertical positions are in twentieths of the viewport height
\* (5% each).  Where the sections and rows lie depends on the viewport and
\* the fonts; this is one page layout, sections in document order: hero,
\* services, the ticker (pinned at pinStart for pinLength of scroll), then
\* the project rows.
Layout ==
    [ viewport |-> 20,
      servicesTop |-> 20, servicesBottom |-> 45,
      serviceRowTop |-> <<23, 28, 33, 38>>,
      pinStart |-> 45, pinLength |-> 20,
      rowTop |-> <<95, 120, 145>>, rowBottom |-> <<110, 135, 160>>,
      maxScroll |-> 170 ]

\* Where on tl's playhead the left edge of ticker item k reaches 90% of the
\* viewport width: the first items are in view before tl starts, the others
\* come in as the container moves left.
ItemStart(k) == ((k + 1) \div 4) - 1

\* Variant: the project rows are triggered by their container, whose top
\* is the first row's.
Start_RowsShareTrigger(r) ==
    CASE r[1] = "services" -> Layout.servicesTop - (70 * Layout.viewport) \div 100
      [] r[1] = "project-row" -> Layout.rowTop[1] - (85 * Layout.viewport) \div 100
      [] r[1] = "ticker-item" -> ItemStart(r[2])
      [] r[1] = "reveal-innovative" -> ItemStart(InnovativeItem) + 1

\* ScrollTrigger start / end of a reveal, on the axis its trigger is
\* measured on: window scroll ("top 70%", "top 85%"; default end "bottom
\* top"), or the playhead of tl ("left 90%", "left 60%").
Start(r) ==
    CASE r[1] = "services" -> Layout.servicesTop - (70 * Layout.viewport) \div 100
      [] r[1] = "project-row" -> Layout.rowTop[r[2]] - (85 * Layout.viewport) \div 100
      [] r[1] = "ticker-item" -> ItemStart(r[2])
      [] r[1] = "reveal-innovative" -> ItemStart(InnovativeItem) + 1

End(r) ==
    CASE r[1] = "services" -> Layout.servicesBottom
      [] r[1] = "project-row" -> Layout.rowBottom[r[2]]
      [] r[1] = "ticker-item" -> ItemStart(r[2]) + 4
      [] r[1] = "reveal-innovative" -> ItemStart(InnovativeItem) + 4

\* ScrollTrigger's clipped progress, as a zone: 0 (at or before the start),
\* 1 (strictly between start and end), 2 (at or past the end).
Clipped(scroll, r) ==
    IF scroll <= Start(r) THEN 0 ELSE IF scroll >= End(r) THEN 2 ELSE 1

\* Variant: leaving backwards does nothing.
toggleActions_NoReverse(r) == <<"play", "none", "none", "none">>

\* toggleActions: "play none none reverse" (onEnter, onLeave, onEnterBack, onLeaveBack).
toggleActions(r) == <<"play", "none", "none", "reverse">>

\* ScrollTrigger.update: the action taken when the zone goes from prev to
\* next.  A trigger that did not toggle shot right past, and the callback
\* after the first one is taken unless it is "none".
ToggleState(prev, next) ==
    IF next # 0 /\ prev = 0 THEN 1
    ELSE IF next = 2 THEN 2
    ELSE IF prev = 2 THEN 3
    ELSE 4

ToggleAction(r, prev, next) ==
    IF prev = next THEN "none"
    ELSE LET toggled == (next = 1) # (prev = 1)
             st == ToggleState(prev, next)
         IN IF ~toggled /\ st < 4 /\ toggleActions(r)[st + 1] # "none"
            THEN toggleActions(r)[st + 1]
            ELSE toggleActions(r)[st]

\* animation.play() / animation.reverse() on a tween [t, dir].
Apply(action, tw) ==
    CASE action = "play" -> [tw EXCEPT !.dir = "forward"]
      [] action = "reverse" -> [tw EXCEPT !.dir = "backward"]
      [] OTHER -> tw

\* Total duration of a reveal's tween, in tenths of a second (services:
\* duration 0.8 plus three staggers of 0.1).
Duration(r) ==
    CASE r[1] = "services" -> 8 + (Len(services) - 1) * 1
      [] r[1] = "project-row" -> 10
      [] r[1] = "ticker-item" -> 10
      [] r[1] = "reveal-innovative" -> 1

Min(a, b) == IF a < b THEN a ELSE b
Max(a, b) == IF a > b THEN a ELSE b
Abs(n) == IF n < 0 THEN -n ELSE n

\* One frame of the render loop for one tween.
Advance(r, tw, dt) ==
    CASE tw.dir = "forward" -> [tw EXCEPT !.t = Min(Duration(r), tw.t + dt)]
      [] tw.dir = "backward" -> [tw EXCEPT !.t = Max(0, tw.t - dt)]
      [] OTHER -> tw

\* The playhead tl is scrubbed to: the scroll progress through the pin.
TlTarget(y) ==
    (TlDuration * Max(0, Min(Layout.pinLength, y - Layout.pinStart))) \div Layout.pinLength

\* Eases, as numerators: power3.out and power2.out at t of d (over d^3 and
\* d^2), and elastic.out(1, 0.5) at t tenths of a 1 s tween, in thousandths
\* (1 - 2^(-t) * cos(0.4 * pi * t), rounded).
Power3Out(t, d) == d * d * d - (d - t) * (d - t) * (d - t)
Power2Out(t, d) == d * d - (d - t) * (d - t)
ElasticOut(t) == <<0, 845, 1202, 1101, 981, 969, 995, 1006, 1003, 999, 1000>>[t + 1]

\* What a reveal's tween has written to its targets when its playhead is at t.
\* Variant: all items start together (no stagger).
ServicesVisual_NoStagger(t) ==
    [i \in 1..Len(services) |->
        LET e == Power3Out(Max(0, Min(8, t)), 8)
        IN [y |-> 50 * (512 - e), opacity |-> e]]

\* services: from {y: 50, opacity: 0}, 0.8 s per item, stagger 0.1, over 512.
ServicesVisual(t) ==
    [i \in 1..Len(services) |->
        LET e == Power3Out(Max(0, Min(8, t - (i - 1))), 8)
        IN [y |-> 50 * (512 - e), opacity |-> e]]

\* project rows: set {y: 100, opacity: 0}, to {y: 0, opacity: 1} in 1 s, over 1000.
ProjectRowVisual(t) ==
    LET e == Power3Out(t, 10) IN [y |-> 100 * (1000 - e), opacity |-> e]

\* ticker items: from {y: 100, scale: 0.8, opacity: 0} in 1 s, over 1000.
TickerItemVisual(t) ==
    LET e == ElasticOut(t)
    IN [y |-> 100 * (1000 - e), scale |-> 800 + (200 * e) \div 1000, opacity |-> e]

\* INNOVATIVE: share of '#EB5939' mixed into the original colour, 0.1 s.
InnovativeVisual(t) == [accent |-> Power2Out(t, 1)]

Visual(r) ==
    CASE r[1] = "services" -> ServicesVisual(tween[r].t)
      [] r[1] = "project-row" -> ProjectRowVisual(tween[r].t)
      [] r[1] = "ticker-item" -> TickerItemVisual(tween[r].t)
      [] r[1] = "reveal-innovative" -> InnovativeVisual(tween[r].t)

\* On load the page is at the top; ScrollTrigger's first update enters the
\* triggers that are already past their start, and their tweens play.
RevealInit ==
    /\ scrollY = 0
    /\ tlTime = 0
    /\ zone = [r \in Reveals |-> Clipped(0, r)]
    /\ tween = [r \in Reveals |->
                   Apply(ToggleAction(r, 0, Clipped(0, r)), [t |-> 0, dir |-> "paused"])]

\* A scroll event: the window is at a new position and every trigger
\* measured on the window updates.
Scroll(y) ==
    /\ y # scrollY
    /\ scrollY' = y
    /\ zone' = [r \in Reveals |-> IF InContainer(r) THEN zone[r] ELSE Clipped(y, r)]
    /\ tween' = [r \in Reveals |->
                    IF InContainer(r) THEN tween[r]
                    ELSE Apply(ToggleAction(r, zone[r], Clipped(y, r)), tween[r])]
    /\ UNCHANGED tlTime

\* A frame: running tweens advance, the scrubbed playhead of tl moves towards
\* its target, and the triggers measured on tl update.
Frame ==
    LET time == IF tlTime < TlTarget(scrollY) THEN tlTime + 1
                ELSE IF tlTime > TlTarget(scrollY) THEN tlTime - 1
                ELSE tlTime
        moved == [r \in Reveals |-> Advance(r, tween[r], FrameStep)]
    IN /\ tlTime' = time
       /\ zone' = [r \in Reveals |-> IF InContainer(r) THEN Clipped(time, r) ELSE zone[r]]
       /\ tween' = [r \in Reveals |->
                       IF InContainer(r)
                       THEN Apply(ToggleAction(r, zone[r], Clipped(time, r)), moved[r])
                       ELSE moved[r]]
       /\ <<tlTime', zone', tween'>> # <<tlTime, zone, tween>>
       /\ UNCHANGED scrollY

\* Scroll positions tried: the ends of the page, each window trigger's start,
\* the position just past it and its end, and steps through the pin.
ScrollStops ==
    {0, Layout.maxScroll}
    \cup UNION {{Start(r), Start(r) + 1, End(r)} : r \in {q \in Reveals : ~InContainer(q)}}
    \cup {Layout.pinStart + k * (Layout.pinLength \div TlDuration) : k \in 0..TlDuration}

RevealNext ==
    \/ \E y \in ScrollStops : Scroll(y)
    \/ Frame

\* ------------------------------------------------------------------------
\* MagneticButton: the mousemove / mouseleave handlers and the quickTo tweens
\* Lengths are integers, in units of 1/100000 px.
\* ------------------------------------------------------------------------
PxUnits == 100000
Px(i) == i * PxUnits
Zero == <<0, 0>>

\* The button's box in the viewport before any transform, in px; it depends
\* on the layout, this is one such box (its centre is on a half pixel).
ButtonBox == [left |-> 100, top |-> 200, width |-> 41, height |-> 20]

\* Places the pointer is moved to, in px: one beside the button, three on it.
PointerPositions == {<<90, 210>>, <<104, 203>>, <<121, 210>>, <<139, 218>>}

QuickDuration == 5      \* quickTo duration: 0.5

\* A value as the tween writes it to the element: rounded to 4 decimals.
Rendered4(v) == ((v + 5) \div 10) * 10

\* The x / y the quickTo tweens have rendered at their playhead (power3.out).
Offset(q) ==
    LET e == Power3Out(q.t, QuickDuration)
        d == QuickDuration * QuickDuration * QuickDuration
    IN << Rendered4(q.from[1] + ((q.to[1] - q.from[1]) * e) \div d),
          Rendered4(q.from[2] + ((q.to[2] - q.from[2]) * e) \div d) >>

\* el.getBoundingClientRect(): the box moved by the rendered transform.
BoundingClientRect(q) ==
    [left |-> Px(ButtonBox.left) + Offset(q)[1],
     top |-> Px(ButtonBox.top) + Offset(q)[2],
     width |-> Px(ButtonBox.width),
     height |-> Px(ButtonBox.height)]

\* Whether a point of the viewport (in px) lies on the button.
Over(p, q) ==
    LET rect == BoundingClientRect(q)
    IN /\ rect.left <= Px(p[1]) /\ Px(p[1]) <= rect.left + rect.width
       /\ rect.top <= Px(p[2]) /\ Px(p[2]) <= rect.top + rect.height

\* Variant: the pull is measured from the button's left / top edge.
MagnetTarget_FromCorner(clientX, clientY, rect) ==
    << ((clientX - rect.left) * 3) \div 10, ((clientY - rect.top) * 3) \div 10 >>

\* mouseMove: x = clientX - (left + width / 2), y likewise; the targets are
\* x * 0.3 and y * 0.3.
MagnetTarget(clientX, clientY, rect) ==
    LET x == clientX - (rect.left + rect.width \div 2)
        y == clientY - (rect.top + rect.height \div 2)
    IN << (x * 3) \div 10, (y * 3) \div 10 >>

\* xTo(v[1]); yTo(v[2]): both tweens restart from what they have rendered.
QuickTo(q, v) == [from |-> Offset(q), to |-> v, t |-> 0]

NoRect == [left |-> 0, top |-> 0, width |-> 0, height |-> 0]

MagnetInit ==
    /\ pointer = <<90, 210>>
    /\ hovered = FALSE
    /\ quick = [from |-> Zero, to |-> Zero, t |-> QuickDuration]
    /\ lastEvent = [type |-> "none", clientX |-> 0, clientY |-> 0, rect |-> NoRect]
    /\ events = 0

\* The pointer moves to a place on the button: mousemove fires on it.
MouseMove(p) ==
    /\ events < MaxEvents
    /\ p # pointer
    /\ Over(p, quick)
    /\ LET rect == BoundingClientRect(quick) IN
        /\ quick' = QuickTo(quick, MagnetTarget(Px(p[1]), Px(p[2]), rect))
        /\ lastEvent' = [type |-> "mousemove", clientX |-> Px(p[1]), clientY |-> Px(p[2]),
                         rect |-> rect]
    /\ pointer' = p
    /\ hovered' = TRUE
    /\ events' = events + 1

\* The pointer moves off the button: mouseleave fires, xTo(0); yTo(0).
MouseLeave(p) ==
    /\ events < MaxEvents
    /\ hovered
    /\ p # pointer
    /\ ~Over(p, quick)
    /\ quick' = QuickTo(quick, Zero)
    /\ lastEvent' = [type |-> "mouseleave", clientX |-> Px(p[1]), clientY |-> Px(p[2]),
                     rect |-> BoundingClientRect(quick)]
    /\ pointer' = p
    /\ hovered' = FALSE
    /\ events' = events + 1

\* The pointer moves between places off the button: no handler runs.
MouseElsewhere(p) ==
    /\ ~hovered
    /\ p # pointer
    /\ ~Over(p, quick)
    /\ pointer' = p
    /\ UNCHANGED <<hovered, quick, lastEvent, events>>

\* A frame of dt tenths: the quickTo tweens render further.
MagnetFrame(dt) ==
    /\ quick.t < QuickDuration
    /\ quick' = [quick EXCEPT !.t = Min(QuickDuration, @ + dt)]
    /\ UNCHANGED <<pointer, hovered, lastEvent, events>>

MagnetNext ==
    \/ \E p \in PointerPositions : MouseMove(p)
    \/ \E p \in PointerPositions : MouseLeave(p)
    \/ \E p \in PointerPositions : MouseElsewhere(p)
    \/ \E dt \in {1, FrameStep} : MagnetFrame(dt)

\* ------------------------------------------------------------------------
\* The animated sections: their elements, the targets their useGSAP
\* callbacks resolve and the animations they register.  An element is
\* [path, tag, cls]; its path leads from its section's root to it, and the
\* null of an unattached ref is the empty path.
\* ------------------------------------------------------------------------
Sections == {"hero", "services", "ticker", "works"}
Elem(path, tag, cls) == [path |-> path, tag |-> tag, cls |-> cls]
Null == <<>>

HeroElements ==
    { Elem(<<"hero">>, "section", {"hero-container"}),
      Elem(<<"hero", "top">>, "div", {}),
      Elem(<<"hero", "top", "meta1">>, "div", {"hero-meta"}),
      Elem(<<"hero", "top", "meta2">>, "div", {"hero-meta"}),
      Elem(<<"hero", "top", "meta3">>, "div", {"hero-meta"}),
      Elem(<<"hero", "main">>, "div", {}),
      Elem(<<"hero", "main", "text">>, "div", {"hero-text-content"}),
      Elem(<<"hero", "main", "text", "title">>, "h1", {}),
      Elem(<<"hero", "main", "text", "title", "line1">>, "div", {"hero-line"}),
      Elem(<<"hero", "main", "text", "title", "line2">>, "div", {"hero-line"}),
      Elem(<<"hero", "main", "text", "title", "line3">>, "div", {"hero-line"}),
      Elem(<<"hero", "main", "text", "meta4">>, "div", {"hero-meta"}),
      Elem(<<"hero", "main", "text", "meta5">>, "div", {"hero-meta"}),
      Elem(<<"hero", "main", "text", "meta5", "button">>, "button", {"hover-trigger"}),
      Elem(<<"hero", "main", "image">>, "div", {"hero-img-container"}),
      Elem(<<"hero", "main", "image", "revealer">>, "div", {"hero-img-revealer"}),
      Elem(<<"hero", "main", "image", "img">>, "div", {"hero-img"}) }

ServicesElements ==
    { Elem(<<"services">>, "section", {}),
      Elem(<<"services", "list">>, "div", {}) }
    \cup { Elem(<<"services", "list", ToString(i)>>, "div",
                {"service-item", "group", "hover-trigger"}) : i \in 1..Len(services) }

TickerTags ==
    << "span", "div", "span", "span", "div", "span", "svg",
       "span", "div", "span", "div", "span", "button", "span" >>

TickerElements ==
    { Elem(<<"ticker">>, "section", {}),
      Elem(<<"ticker", "container">>, "div", {}) }
    \cup { Elem(<<"ticker", "container", ToString(k)>>, TickerTags[k],
                {"ticker-item"} \cup (IF k = InnovativeItem THEN {"reveal-innovative"} ELSE {}))
           : k \in 1..NumTickerItems }

WorksElements ==
    { Elem(<<"works">>, "section", {}),
      Elem(<<"works", "list">>, "div", {}) }
    \cup { Elem(<<"works", "list", ToString(idx)>>, "div", {"project-row", "group"})
           : idx \in 1..Len(projects) }
    \cup { Elem(<<"works", "list", ToString(idx), "image">>, "div", {"hover-trigger"})
           : idx \in 1..Len(projects) }
    \cup { Elem(<<"works", "list", ToString(idx), "button">>, "button", {"hover-trigger"})
           : idx \in 1..Len(projects) }

Elements == HeroElements \cup ServicesElements \cup TickerElements \cup WorksElements

IsPrefix(a, b) == Len(a) <= Len(b) /\ SubSeq(b, 1, Len(a)) = a
Subtree(root) == {e.path : e \in {x \in Elements : IsPrefix(root, x.path)}}

\* ref.current: the element, or null when the ref is not attached.
Ref(name, path) == IF attached[name] THEN path ELSE Null

\* Variant: useGSAP is called without a scope.
Scope_None(s) == Null

\* The scope each section gives useGSAP: its root element (sectionRef in
\* NarrativeTicker, containerRef in the others).
Scope(s) == IF s = "ticker" THEN Ref("tickerSection", <<"ticker">>) ELSE <<s>>

\* Selector text resolved inside a useGSAP context: the descendants of the
\* scope that have the class; the whole document when the scope is null.
Resolve(scope, c) ==
    {e.path : e \in {x \in Elements :
                        /\ c \in x.cls
                        /\ scope = Null \/ (IsPrefix(scope, x.path) /\ x.path # scope)}}

\* A registered animation or immediate set: who registered it, what it
\* writes to, and what drives it ("set", "timeline", "scrub", "toggle").
Anim(section, name, targets, drive) ==
    [section |-> section, name |-> name, targets |-> targets, drive |-> drive]

\* The hero entrance timeline, in hundredths of a second: per step the
\* selector, duration, stagger and position ("-=n" as back |-> n).
HeroIntro ==
    << [sel |-> "hero-line", duration |-> 150, stagger |-> 15, back |-> 0],
       [sel |-> "hero-meta", duration |-> 100, stagger |-> 10, back |-> 100],
       [sel |-> "hero-img-revealer", duration |-> 120, stagger |-> 0, back |-> 120],
       [sel |-> "hero-img-revealer", duration |-> 80, stagger |-> 0, back |-> 0],
       [sel |-> "hero-img", duration |-> 150, stagger |-> 0, back |-> 120] >>

HeroAnimations(isMobile, title) ==
    LET sc == Scope("hero") IN
    { Anim("hero", <<"set", k>>, Resolve(sc, HeroIntro[k].sel), "set") : k \in {1, 2, 3, 5} }
    \cup { Anim("hero", <<"intro", k>>, Resolve(sc, HeroIntro[k].sel), "timeline")
           : k \in 1..Len(HeroIntro) }
    \cup (IF ~isMobile
          THEN { Anim("hero", <<"parallax", 0>>, Resolve(sc, "hero-img-container"), "scrub"),
                 Anim("hero", <<"text-fade", 0>>, Resolve(sc, "hero-text-content"), "scrub") }
          ELSE {})
    \cup (IF title # Null
          THEN { Anim("hero", <<"distortion", 0>>, {title}, "scrub") }
          ELSE {})

ServicesAnimations ==
    { Anim("services", <<"reveal", 0>>, Resolve(Scope("services"), "service-item"), "toggle") }

Race == 50
\* Widths of the ticker's container and section: at load, and after the
\* layout has changed (fonts, window size).
TickerWidthsAtLoad == [scrollWidth |-> 1150, offsetWidth |-> 800]
TickerWidthChoices ==
    { TickerWidthsAtLoad,
      [scrollWidth |-> 1550, offsetWidth |-> 800],
      [scrollWidth |-> 750, offsetWidth |-> 1000] }

\* Variant: the widths are read without the guard for missing refs.
getScrollAmount_NoGuard(container, section, w) ==
    -(w.scrollWidth - w.offsetWidth + Race)

\* getScrollAmount: 0 when a ref is missing, else
\* -(container.scrollWidth - section.offsetWidth + race).
getScrollAmount(container, section, w) ==
    IF container = Null \/ section = Null THEN 0
    ELSE -(w.scrollWidth - w.offsetWidth + Race)

TickerAnimations(container, section) ==
    LET sc == Scope("ticker") IN
    { Anim("ticker", <<"pin", 0>>, {section} \ {Null}, "scrub"),
      Anim("ticker", <<"tl", 0>>, {container} \ {Null}, "scrub"),
      Anim("ticker", <<"skew", 0>>, {container} \ {Null}, "scrub"),
      Anim("ticker", <<"innovative", 0>>, Resolve(sc, "reveal-innovative"), "toggle") }
    \cup { Anim("ticker", <<"item", 0>>, {item}, "toggle") : item \in Resolve(sc, "ticker-item") }

WorksAnimations ==
    LET sc == Scope("works") IN
    { Anim("works", <<"set", 0>>, Resolve(sc, "project-row"), "set") }
    \cup { Anim("works", <<"row", 0>>, {row}, "toggle") : row \in Resolve(sc, "project-row") }

\* Before any section has mounted.
SectionsInit ==
    /\ sectionMount = [s \in Sections |-> [mounted |-> FALSE, mobile |-> FALSE]]
    /\ animations = {}
    /\ tickerWidths = TickerWidthsAtLoad
    /\ tickerPin = 0
    /\ tickerXEnd = 0
    /\ tickerScroll = 0
    /\ tickerShown = 0

MountHero ==
    /\ ~sectionMount["hero"].mounted
    /\ LET isMobile == innerWidth < MdBreakpoint IN
        /\ sectionMount' = [sectionMount EXCEPT !["hero"] = [mounted |-> TRUE, mobile |-> isMobile]]
        /\ animations' = animations
              \cup HeroAnimations(isMobile, Ref("title", <<"hero", "main", "text", "title">>))
    /\ UNCHANGED <<tickerWidths, tickerPin, tickerXEnd, tickerScroll, tickerShown>>

MountServices ==
    /\ ~sectionMount["services"].mounted
    /\ sectionMount' = [sectionMount EXCEPT !["services"].mounted = TRUE]
    /\ animations' = animations \cup ServicesAnimations
    /\ UNCHANGED <<tickerWidths, tickerPin, tickerXEnd, tickerScroll, tickerShown>>

\* NarrativeTicker mounts: the ScrollTrigger of tl measures its end and tl's
\* tween reads its end value, both through getScrollAmount.
MountTicker ==
    /\ ~sectionMount["ticker"].mounted
    /\ LET container == Ref("tickerContainer", <<"ticker", "container">>)
           section == Ref("tickerSection", <<"ticker">>)
       IN /\ animations' = animations \cup TickerAnimations(container, section)
          /\ tickerPin' = Abs(getScrollAmount(container, section, tickerWidths))
          /\ tickerXEnd' = getScrollAmount(container, section, tickerWidths)
    /\ sectionMount' = [sectionMount EXCEPT !["ticker"].mounted = TRUE]
    /\ UNCHANGED <<tickerWidths, tickerScroll, tickerShown>>

MountWorks ==
    /\ ~sectionMount["works"].mounted
    /\ sectionMount' = [sectionMount EXCEPT !["works"].mounted = TRUE]
    /\ animations' = animations \cup WorksAnimations
    /\ UNCHANGED <<tickerWidths, tickerPin, tickerXEnd, tickerScroll, tickerShown>>

\* A section unmounts: its context reverts and kills what it registered.
UnmountSection(s) ==
    /\ sectionMount[s].mounted
    /\ sectionMount' = [sectionMount EXCEPT ![s] = [mounted |-> FALSE, mobile |-> FALSE]]
    /\ animations' = {a \in animations : a.section # s}
    /\ IF s = "ticker"
       THEN tickerPin' = 0 /\ tickerXEnd' = 0
       ELSE UNCHANGED <<tickerPin, tickerXEnd>>
    /\ UNCHANGED <<tickerWidths, tickerScroll, tickerShown>>

\* NarrativeTicker after mount: the window scrolling through the pin, the
\* scrubbed playhead of tl catching up, the layout changing and ScrollTrigger
\* refreshing.  Offsets are px of scroll past the pin's start.
TickerOffsets == {0, 200, 400, 600, 800}
ScrubStep == 200      \* px of scroll the scrubbed playhead catches up per frame

\* The x tl has written to the container: 0 at the start of tl, tickerXEnd
\* at its end, linear in between (ease "none"); the playhead is at the share
\* of the pin the shown offset has covered.
TickerX ==
    IF tickerPin = 0 THEN tickerXEnd
    ELSE (tickerXEnd * Min(tickerShown, tickerPin)) \div tickerPin

\* The window scrolls to offset y.
TickerScrollTo(y) ==
    /\ sectionMount["ticker"].mounted
    /\ y # tickerScroll
    /\ tickerScroll' = y
    /\ UNCHANGED <<sectionMount, animations, tickerWidths, tickerPin, tickerXEnd, tickerShown>>

\* A frame: scrub: 1 moves the playhead of tl towards the scroll position.
TickerFrame ==
    /\ sectionMount["ticker"].mounted
    /\ tickerShown # tickerScroll
    /\ tickerShown' = IF tickerShown < tickerScroll
                      THEN Min(tickerScroll, tickerShown + ScrubStep)
                      ELSE Max(tickerScroll, tickerShown - ScrubStep)
    /\ UNCHANGED <<sectionMount, animations, tickerWidths, tickerPin, tickerXEnd, tickerScroll>>

\* The widths of the container or the section change (fonts, window size).
LayoutChange(w) ==
    /\ w # tickerWidths
    /\ tickerWidths' = w
    /\ UNCHANGED <<sectionMount, animations, tickerPin, tickerXEnd, tickerScroll, tickerShown>>

\* Variant: invalidateOnRefresh is off, the tween keeps its end value.
Refresh_NoInvalidate ==
    /\ sectionMount["ticker"].mounted
    /\ LET container == Ref("tickerContainer", <<"ticker", "container">>)
           section == Ref("tickerSection", <<"ticker">>)
       IN tickerPin' = Abs(getScrollAmount(container, section, tickerWidths))
    /\ tickerPin' # tickerPin
    /\ UNCHANGED <<sectionMount, animations, tickerWidths, tickerXEnd, tickerScroll, tickerShown>>

\* ScrollTrigger.refresh: end is a function and is called again, and
\* invalidateOnRefresh makes tl's tween read its function-based x again.
Refresh ==
    /\ sectionMount["ticker"].mounted
    /\ LET container == Ref("tickerContainer", <<"ticker", "container">>)
           section == Ref("tickerSection", <<"ticker">>)
       IN /\ tickerPin' = Abs(getScrollAmount(container, section, tickerWidths))
          /\ tickerXEnd' = getScrollAmount(container, section, tickerWidths)
    /\ <<tickerPin', tickerXEnd'>> # <<tickerPin, tickerXEnd>>
    /\ UNCHANGED <<sectionMount, animations, tickerWidths, tickerScroll, tickerShown>>

TickerNext ==
    \/ \E y \in TickerOffsets : TickerScrollTo(y)
    \/ TickerFrame
    \/ \E w \in TickerWidthChoices : LayoutChange(w)
    \/ Refresh

\* HeroSection after mount: the entrance timeline playing, the window
\* scrolling through the section, and the scrubbed distortion catching up.
\* The number of elements a step of the timeline animates.
StepTargets(k) == Cardinality(Resolve(<<"hero">>, HeroIntro[k].sel))

\* Variant: the staggers do not lengthen a step.
StepLength_NoStagger(k) == HeroIntro[k].duration

\* Length of step k: its duration plus one stagger per further element.
StepLength(k) == HeroIntro[k].duration + HeroIntro[k].stagger * (StepTargets(k) - 1)

\* tl.to(targets, vars, position): a step is placed at the end of the
\* timeline as built so far, "-=n" that much before it; the timeline then
\* ends where its last-ending step ends.
RECURSIVE TimelineEnd(_)
StepStart(k) == Max(0, TimelineEnd(k - 1) - HeroIntro[k].back)
TimelineEnd(k) ==
    IF k = 0 THEN 0 ELSE Max(TimelineEnd(k - 1), StepStart(k) + StepLength(k))
StepStarts == [k \in 1..Len(HeroIntro) |-> StepStart(k)]
HeroTotal == TimelineEnd(Len(HeroIntro))

\* A timeline renders its children in the order of their start times,
\* earlier-added first among equals.
RECURSIVE ByStart(_)
ByStart(steps) ==
    IF steps = {} THEN <<>>
    ELSE LET first == CHOOSE k \in steps :
                         \A j \in steps :
                            StepStarts[k] < StepStarts[j] \/ (StepStarts[k] = StepStarts[j] /\ k <= j)
         IN <<first>> \o ByStart(steps \ {first})

StartedBy(t) == {k \in 1..Len(HeroIntro) : StepStarts[k] <= t}
HeroDeltas == {10, 20, 60}     \* frame lengths, in hundredths of a second
HeroOffsets == 0..4

HeroInit ==
    /\ heroTime = 0
    /\ heroOrder = ByStart(StartedBy(0))
    /\ heroScroll = 0
    /\ heroShown = 0

\* A frame dt after the last: the timeline renders at its new time, starting
\* the steps it has reached, and the distortion (scrub: 1) moves towards the
\* scroll position.
HeroFrame(dt) ==
    LET time == Min(HeroTotal, heroTime + dt)
        shown == IF heroShown < heroScroll THEN heroShown + 1
                 ELSE IF heroShown > heroScroll THEN heroShown - 1
                 ELSE heroShown
    IN /\ heroTime' = time
       /\ heroOrder' = heroOrder \o ByStart(StartedBy(time) \ StartedBy(heroTime))
       /\ heroShown' = shown
       /\ <<time, shown>> # <<heroTime, heroShown>>
       /\ UNCHANGED heroScroll

\* The window scrolls to offset q of the hero.
HeroScrollTo(q) ==
    /\ q # heroScroll
    /\ heroScroll' = q
    /\ UNCHANGED <<heroTime, heroOrder, heroShown>>

HeroNext ==
    \/ \E dt \in HeroDeltas : HeroFrame(dt)
    \/ \E q \in HeroOffsets : HeroScrollTo(q)

\* ------------------------------------------------------------------------
\* CustomCursor while active (fine pointer, both markers attached): the
\* mousemove handler, the ticker callback, and the page scrolling under the
\* pointer.  pos and ringAt are in 1/PosUnits px so that the halvings of the
\* follower are exact for as many frames as the ticker runs; mouse, dotAt
\* and clientAt are in px.
\* ------------------------------------------------------------------------
PosUnits == 2 ^ (MaxFrames + 2)
InnerHeight == 600                       \* window.innerHeight
SpeedNum == 1                            \* const speed = 0.5
SpeedDen == 2

\* The part of the document the pointer can reach, top to bottom, in bands
\* BandHeight px high.  Each band is the chain of elements from the event's
\* target up to its section: [tag, cls].
BandHeight == 100
El(tag, cls) == [tag |-> tag, cls |-> cls]
Bands ==
    << << El("section", {"hero-container"}) >>,
       << El("svg", {}), El("button", {"hover-trigger"}),
          El("div", {"hero-meta"}), El("section", {"hero-container"}) >>,
       << El("h3", {}), El("div", {}),
          El("div", {"service-item", "hover-trigger"}), El("section", {}) >>,
       << El("h2", {}), El("div", {}), El("section", {}) >>,
       << El("svg", {}), El("a", {"group"}), El("div", {}), El("footer", {}) >> >>

\* element.matches('a, button, input, textarea, .hover-trigger')
MatchesInteractive(e) ==
    \/ e.tag \in {"a", "button", "input", "textarea"}
    \/ "hover-trigger" \in e.cls

\* target.closest(selector) !== null: the target or one of its ancestors matches.
Closest(chain) == \E i \in 1..Len(chain) : MatchesInteractive(chain[i])

\* The element under client point p when the page is scrolled by top.
ElementAt(p, top) == Bands[((p[2] + top) \div BandHeight) + 1]

CursorPoints == {<<100, 50>>, <<420, 150>>, <<384, 300>> }
ViewTops == {0, BandHeight}
DeltaRatios == {1, 2}

HoverLook == [dot |-> 0, ring |-> 3, blend |-> "difference"]
DefaultLook == [dot |-> 1, ring |-> 1, blend |-> "normal"]

\* Variant: no delta-time correction, dt = speed * deltaRatio.
FollowerStep_Linear(p, m, k) ==
    p + ((m * PosUnits - p) * SpeedNum * k) \div SpeedDen

\* One coordinate of the ticker callback:
\* dt = 1 - (1 - speed)^deltaRatio; pos += (mouse - pos) * dt.
FollowerStep(p, m, k) ==
    LET rest == (SpeedDen - SpeedNum) ^ k
        whole == SpeedDen ^ k
    IN p + ((m * PosUnits - p) * (whole - rest)) \div whole

\* After the useGSAP callback: pos and mouse at the centre of the window,
\* x and y of both markers not yet written, both scales tweening to 1.
\* The pointer is at p; the component has not been told.
CursorStart(p) ==
    /\ pos = <<(MdBreakpoint \div 2) * PosUnits, (InnerHeight \div 2) * PosUnits>>
    /\ mouse = <<MdBreakpoint \div 2, InnerHeight \div 2>>
    /\ dotAt = <<0, 0>>
    /\ ringAt = <<0, 0>>
    /\ look = DefaultLook
    /\ clientAt = p
    /\ viewTop = 0
    /\ frames = 0

CursorInit == \E p \in CursorPoints : CursorStart(p)
CursorIdle == CursorStart(<<MdBreakpoint \div 2, InnerHeight \div 2>>)

\* moveCursor: a mousemove reaches window with the pointer at p.
moveCursor(p) ==
    /\ clientAt' = p
    /\ mouse' = p
    /\ dotAt' = p
    /\ look' = IF Closest(ElementAt(p, viewTop)) THEN HoverLook ELSE DefaultLook
    /\ UNCHANGED <<pos, ringAt, viewTop, frames>>

\* The page scrolls (wheel, keyboard, scrollIntoView) while the pointer
\* rests: no handler of the component runs.
ScrollUnder(top) ==
    /\ top # viewTop
    /\ viewTop' = top
    /\ UNCHANGED <<mouse, pos, dotAt, ringAt, look, clientAt, frames>>

\* The callback given to gsap.ticker.add, for a frame of deltaRatio k.
ticker(k) ==
    /\ frames + k <= MaxFrames
    /\ frames' = frames + k
    /\ pos' = <<FollowerStep(pos[1], mouse[1], k), FollowerStep(pos[2], mouse[2], k)>>
    /\ ringAt' = pos'
    /\ UNCHANGED <<mouse, dotAt, look, clientAt, viewTop>>

CursorNext ==
    \/ \E p \in CursorPoints : moveCursor(p)
    \/ \E top \in ViewTops : ScrollUnder(top)
    \/ \E k \in DeltaRatios : ticker(k)

\* ------------------------------------------------------------------------
\* Specifications
\* ------------------------------------------------------------------------
\* The page after its first commit: every component has mounted once.  The
\* pointer kind plays no part in what PortfolioPage does afterwards; a fine
\* pointer is taken here, and SpecLife covers both kinds.
MountedInit ==
    /\ cursorMount = [mounted |-> TRUE, coarse |-> FALSE, gen |-> 1]
    /\ buttonMount = [b \in Buttons |-> [mounted |-> TRUE, gen |-> 1]]
    /\ attached = AllAttached
    /\ windowListeners = CursorWindow(FALSE, TRUE, TRUE, 1)
    /\ tickerListeners = CursorTicker(FALSE, TRUE, TRUE, 1)
    /\ elementListeners =
          UNION {ButtonListeners(b, TRUE, hoverEffectDefault, 1) : b \in Buttons}

\* Every section has mounted once, all refs attached.
SectionsMounted ==
    /\ sectionMount = [s \in Sections |->
            [mounted |-> TRUE, mobile |-> (s = "hero" /\ innerWidth < MdBreakpoint)]]
    /\ animations =
          HeroAnimations(innerWidth < MdBreakpoint, <<"hero", "main", "text", "title">>)
          \cup ServicesAnimations
          \cup TickerAnimations(<<"ticker", "container">>, <<"ticker">>)
          \cup WorksAnimations
    /\ tickerWidths = TickerWidthsAtLoad
    /\ tickerPin = Abs(getScrollAmount(<<"ticker", "container">>, <<"ticker">>, tickerWidths))
    /\ tickerXEnd = getScrollAmount(<<"ticker", "container">>, <<"ticker">>, tickerWidths)
    /\ tickerScroll = 0
    /\ tickerShown = 0

Init == PageInit /\ MountedInit /\ RevealInit /\ MagnetInit /\ CursorIdle /\ SectionsMounted /\ HeroInit

PageNext ==
    \/ Tick
    \/ onComplete
    \/ ClickHamburger
    \/ ClickClose
    \/ \E i \in 1..Len(MobileNavItems) : ClickMobileNav(i)
    \/ \E i \in 1..Len(DesktopNavItems) : ClickDesktopNav(i)
    \/ ClickViewWorks
    \/ \E idx \in 1..Len(projects) : ClickLiveDemo(idx)
    \/ ExitComplete
    \/ Resize

Next == PageNext /\ UNCHANGED <<lifeVars, revealVars, magnetVars, cursorVars, sectionVars, heroVars>>

Spec == Init /\ [][Next]_vars

\* Mounting and unmounting of the components that register listeners.
LifeNext ==
    \/ \E coarse \in BOOLEAN : MountCursor(coarse)
    \/ UnmountCursor
    \/ \E b \in Buttons : MountButton(b)
    \/ \E b \in Buttons : UnmountButton(b)

InitLife == PageInit /\ innerWidth = MdBreakpoint /\ LifeInit /\ RevealInit /\ MagnetInit /\ CursorIdle /\ SectionsInit /\ HeroInit
NextLife == LifeNext /\ UNCHANGED <<pageVars, revealVars, magnetVars, cursorVars, sectionVars, heroVars>>
SpecLife == InitLife /\ [][NextLife]_vars

\* Scrolling and the render loop, with the page mounted.
InitReveal == PageInit /\ innerWidth = MdBreakpoint /\ MountedInit /\ RevealInit /\ MagnetInit /\ CursorIdle /\ SectionsMounted /\ HeroInit
NextReveal == RevealNext /\ UNCHANGED <<pageVars, lifeVars, magnetVars, cursorVars, sectionVars, heroVars>>
SpecReveal == InitReveal /\ [][NextReveal]_vars

\* The pointer moving over and off one mounted MagneticButton.
InitMagnet == PageInit /\ innerWidth = MdBreakpoint /\ MountedInit /\ RevealInit /\ MagnetInit /\ CursorIdle /\ SectionsMounted /\ HeroInit
NextMagnet == MagnetNext /\ UNCHANGED <<pageVars, lifeVars, revealVars, cursorVars, sectionVars, heroVars>>
SpecMagnet == InitMagnet /\ [][NextMagnet]_vars

\* ------------------------------------------------------------------------
\* Properties
\* ------------------------------------------------------------------------
Count(s, P(_)) == Cardinality({i \in 1..Len(s) : P(s[i])})
Texts(s, el, row) ==
    LET sel == SelectSeq(s, LAMBDA n : n.el = el /\ n.row = row)
    IN [i \in 1..Len(sel) |-> sel[i].text]
Labels(s, el) ==
    LET sel == SelectSeq(s, LAMBDA n : n.el = el)
    IN [i \in 1..Len(sel) |-> sel[i].text]
Rows(s, el) ==
    LET sel == SelectSeq(s, LAMBDA n : n.el = el)
    IN [i \in 1..Len(sel) |-> sel[i].row]

PreloaderRendered == Rendered("preloader")
OverlayRendered == Rendered("mobile-menu")

\* C1: the page mounts with loading = TRUE and the Preloader rendered; the
\* Preloader stays rendered until 2.8 s after mount; its completion callback
\* fires at exactly 2.8 s, and with it loading turns FALSE and the Preloader
\* is no longer rendered.
C1_PreloaderTiming ==
    /\ [](/\ (elapsed < 28 => loading /\ PreloaderRendered)
          /\ (elapsed > 28 => ~loading)
          /\ (loading <=> PreloaderRendered)
          /\ (lastControl = <<"preloader", 0>> => ~loading /\ ~PreloaderRendered))
    /\ [][(loading /\ ~loading') =>
             (elapsed = 28 /\ elapsed' = 28 /\ lastControl' = <<"preloader", 0>>)]_vars

C1_Witness ==
    ~loading /\ elapsed = 28 /\ lastControl = <<"preloader", 0>> /\ ~PreloaderRendered

NavTargets == <<"portfolio-root", "work", "process", "contact">>
NavNames == <<"Home", "Work", "Process", "Contact">>

C2_Handlers ==
    /\ (lastControl = <<"hamburger", 0>> => isMobileMenuOpen)
    /\ \A i \in 1..4 :
          lastControl = <<"mobile-nav", i>> =>
              /\ ~isMobileMenuOpen
              /\ scrollRequest = NavTargets[i]
    /\ (OverlayRendered => Labels(DOM, "mobile-nav-button") = NavNames)

\* C2 (as stated): the hamburger sets the flag, the overlay is rendered
\* exactly when the flag is true, and every overlay entry scrolls to its
\* element and resets the flag.
C2_Original ==
    /\ C2_Handlers
    /\ (OverlayRendered <=> isMobileMenuOpen)

\* C2 (amended): the hamburger sets the flag, the overlay is rendered whenever
\* the flag is true and, with the flag false, only while its exit transition
\* runs; every overlay entry scrolls to its element and resets the flag.
C2_MobileMenu ==
    /\ C2_Handlers
    /\ (isMobileMenuOpen => OverlayRendered)
    /\ (~isMobileMenuOpen /\ OverlayRendered => menuOverlay = "exiting")

C2_Witness ==
    /\ lastControl = <<"mobile-nav", 3>>
    /\ scrollRequest = "process"
    /\ ~isMobileMenuOpen
    /\ OverlayRendered

CursorTickers == {h \in tickerListeners : h[2] = CursorOwner}
CursorMoves == {l \in windowListeners : l[1] = "mousemove" /\ l[2][2] = CursorOwner}

\* C3: a CustomCursor mounted on a coarse pointer has no window mousemove
\* listener and no ticker callback; one mounted on a fine pointer has both.
C3_CoarseGate ==
    cursorMount.mounted =>
        IF cursorMount.coarse
        THEN CursorMoves = {} /\ CursorTickers = {}
        ELSE /\ \E l \in CursorMoves : l[2][1] = "moveCursor" /\ l[2][3] = cursorMount.gen
             /\ \E h \in CursorTickers : h[1] = "ticker" /\ h[3] = cursorMount.gen

C3_Witness ==
    cursorMount.mounted /\ cursorMount.coarse /\ cursorMount.gen = 2

\* C4: a listener or ticker callback is registered only while the component
\* instance that registered it is mounted: after an unmount nothing the
\* component registered remains, so the registrations are those from before
\* its mount.
C4_CleanupComplete ==
    /\ \A l \in windowListeners : cursorMount.mounted /\ l[2][3] = cursorMount.gen
    /\ \A h \in tickerListeners : cursorMount.mounted /\ h[3] = cursorMount.gen
    /\ \A l \in elementListeners :
          buttonMount[l[1]].mounted /\ l[3][3] = buttonMount[l[1]].gen
    /\ ((~cursorMount.mounted /\ \A b \in Buttons : ~buttonMount[b].mounted) =>
          windowListeners = {} /\ tickerListeners = {} /\ elementListeners = {})

C4_Witness ==
    /\ ~cursorMount.mounted /\ cursorMount.gen = 2 /\ ~cursorMount.coarse
    /\ \A b \in Buttons : ~buttonMount[b].mounted /\ buttonMount[b].gen = 2

ServiceNames == <<"App Development", "Web Development", "AI & ML", "Robotics & IoT">>
ProjectTitles == <<"ZON APP", "ALERT DRIVE", "SPEEDBUMP">>
ProjectTags == << <<"App", "Productivity">>, <<"IoT", "Sensors">>, <<"Innovation", "Physics">> >>
ProjectLinks == <<"https://vrn7712.github.io/zon-website/",
                  "https://vrn7712.github.io/AlertDrive/",
                  "https://adaptive-speedbump.netlify.app/">>

C6_Entries ==
    /\ Rows(DOM, "service-item") = <<1, 2, 3, 4>>
    /\ Labels(DOM, "service-name") = ServiceNames
    /\ \A i \in 1..4 : Texts(DOM, "service-name", i) = <<ServiceNames[i]>>
    /\ Rows(DOM, "project-row") = <<1, 2, 3>>
    /\ \A idx \in 1..3 :
          /\ Texts(DOM, "tag", idx) = ProjectTags[idx]
          /\ Count(DOM, LAMBDA n : n.el = "magnetic-button" /\ n.row = idx) = 1
          /\ lastControl = <<"live-demo", idx>> => opened = ProjectLinks[idx]

\* C6 (as stated): exactly four service entries and three project entries
\* are rendered in list order, each with its literal name or title, tags and
\* link, and no entry and no title is rendered more than once.
C6_Original ==
    /\ C6_Entries
    /\ \A idx \in 1..3 : Texts(DOM, "project-title", idx) = <<ProjectTitles[idx]>>

\* C6 (amended): exactly four service entries and three project entries are
\* rendered in list order, each entry once, with its literal name, tags and
\* link; a project row shows its title in two stacked headings, so every
\* project title is rendered exactly twice, both times inside its own row.
C6_RenderedEntries ==
    /\ C6_Entries
    /\ \A idx \in 1..3 :
          Texts(DOM, "project-title", idx) = <<ProjectTitles[idx], ProjectTitles[idx]>>
    /\ Len(Labels(DOM, "project-title")) = 6

C6_Witness ==
    /\ lastControl = <<"live-demo", 3>>
    /\ opened = "https://adaptive-speedbump.netlify.app/"
    /\ Texts(DOM, "project-title", 3) = <<"SPEEDBUMP", "SPEEDBUMP">>

\* C7: the header navigation and the overlay navigation offer the same four
\* entries with the same name-to-id mapping, and every id a navigation
\* control scrolls to is the id of exactly one mounted element in every
\* state, so a click always resolves to its target.
C7_NavTargets ==
    /\ Len(DesktopNavItems) = 4 /\ Len(MobileNavItems) = 4
    /\ \A i \in 1..4 :
          /\ DesktopNavItems[i].name = NavNames[i] /\ DesktopNavItems[i].id = NavTargets[i]
          /\ MobileNavItems[i].name = NavNames[i] /\ MobileNavItems[i].id = NavTargets[i]
          /\ Count(DOM, LAMBDA n : n.id = NavTargets[i]) = 1
          /\ lastControl = <<"desktop-nav", i>> => scrollRequest = NavTargets[i]
          /\ lastControl = <<"mobile-nav", i>> => scrollRequest = NavTargets[i]
    /\ Labels(DOM, "desktop-nav-button") = NavNames
    /\ (OverlayRendered => Labels(DOM, "mobile-nav-button") = NavNames)
    /\ (lastControl = <<"view-works", 0>> => scrollRequest = "work")

C7_Witness ==
    /\ lastControl = <<"desktop-nav", 3>>
    /\ scrollRequest = "process"
    /\ loading /\ OverlayRendered

\* C8: a step that changes loading leaves isMobileMenuOpen (and the overlay)
\* unchanged, a step that changes isMobileMenuOpen leaves loading unchanged,
\* a header navigation click leaves both unchanged, and whether a control
\* can act never depends on the other flag.
C8_Independent ==
    /\ [][/\ (loading' # loading =>
                 isMobileMenuOpen' = isMobileMenuOpen /\ menuOverlay' = menuOverlay)
          /\ (isMobileMenuOpen' # isMobileMenuOpen => loading' = loading)
          /\ (lastControl'[1] = "desktop-nav" /\ lastControl' # lastControl =>
                 loading' = loading /\ isMobileMenuOpen' = isMobileMenuOpen)]_vars
    /\ []((ENABLED onComplete) <=> (loading /\ elapsed >= 28))
    /\ []((ENABLED ClickHamburger) <=> (innerWidth < 768))
    /\ []((ENABLED ClickClose) <=> (menuOverlay # "absent"))

C8_Witness == loading /\ isMobileMenuOpen /\ elapsed = 28

MenuControls ==
    {<<"hamburger", 0>>, <<"close-button", 0>>,
     <<"mobile-nav", 1>>, <<"mobile-nav", 2>>, <<"mobile-nav", 3>>, <<"mobile-nav", 4>>}

\* C9 (as stated): each flag is written by exactly one control.
C9_Original ==
    /\ Cardinality(writers.loading) <= 1
    /\ Cardinality(writers.isMobileMenuOpen) <= 1

\* C9 (amended): loading is written by one control only, the Preloader's
\* completion callback; isMobileMenuOpen is written by six controls: the
\* hamburger, which writes true, and the overlay's close button and four
\* navigation entries, which write false.  No other control writes a flag.
C9_FlagWriters ==
    /\ writers.loading \subseteq {<<"preloader", 0>>}
    /\ writers.isMobileMenuOpen \subseteq MenuControls
    /\ (lastControl = <<"hamburger", 0>> => isMobileMenuOpen)
    /\ (lastControl \in MenuControls \ {<<"hamburger", 0>>} => ~isMobileMenuOpen)
    /\ (lastControl = <<"preloader", 0>> => ~loading)

C9_Witness ==
    /\ writers.loading = {<<"preloader", 0>>}
    /\ writers.isMobileMenuOpen = MenuControls

\* The visual state each reveal has before its animation first runs.
PreAnimation(r) ==
    CASE r[1] = "services" -> [i \in 1..4 |-> [y |-> 50 * 512, opacity |-> 0]]
      [] r[1] = "project-row" -> [y |-> 100 * 1000, opacity |-> 0]
      [] r[1] = "ticker-item" -> [y |-> 100 * 1000, scale |-> 800, opacity |-> 0]
      [] r[1] = "reveal-innovative" -> [accent |-> 0]

AtRest(r) ==
    \/ tween[r].dir = "paused"
    \/ tween[r].dir = "forward" /\ tween[r].t = Duration(r)
    \/ tween[r].dir = "backward" /\ tween[r].t = 0

\* C5: a reveal whose trigger is back before its start (scrolled out again)
\* never plays forward, and once its tween has come to rest there its
\* targets are exactly in their pre-animation state (offset, scale, opacity,
\* colour), whatever point the animation had reached when it was reversed.
C5_ReversesToInitial ==
    \A r \in Reveals :
        zone[r] = 0 =>
            /\ tween[r].dir # "forward"
            /\ (AtRest(r) => Visual(r) = PreAnimation(r))

\* Row 2 was reversed half-way through its animation and is back at rest in
\* its pre-animation state while row 1 and the services rows still run back.
C5_Witness ==
    /\ zone[<<"project-row", 2>>] = 0
    /\ tween[<<"project-row", 2>>] = [t |-> 0, dir |-> "backward"]
    /\ zone[<<"project-row", 1>>] = 0
    /\ tween[<<"project-row", 1>>] = [t |-> FrameStep, dir |-> "backward"]
    /\ zone[<<"services", 0>>] = 0
    /\ tween[<<"services", 0>>].dir = "backward"
    /\ tween[<<"services", 0>>].t > 0

\* C10: after a mousemove on the button the quickTo targets are 0.3 times
\* the distance of the pointer from the centre of the rectangle the button
\* had at that event, on both axes; after a mouseleave they are (0, 0); the
\* last event alone determines them.
C10_MagneticTarget ==
    /\ lastEvent.type = "mousemove" =>
          LET r == lastEvent.rect IN
             /\ 20 * quick.to[1] = 3 * (2 * lastEvent.clientX - (2 * r.left + r.width))
             /\ 20 * quick.to[2] = 3 * (2 * lastEvent.clientY - (2 * r.top + r.height))
             /\ r = BoundingClientRect([quick EXCEPT !.t = 0])
             /\ hovered
    /\ lastEvent.type = "mouseleave" => quick.to = Zero /\ ~hovered
    /\ lastEvent.type = "none" => quick.to = Zero

\* A mousemove handled while the button was displaced by an earlier pull
\* that had not finished.
C10_Witness ==
    /\ lastEvent.type = "mousemove"
    /\ lastEvent.rect.left # Px(100)
    /\ lastEvent.rect.left # Px(100) + (3 * (Px(104) - Px(100) - Px(41) \div 2)) \div 10
    /\ events = 3
    /\ quick.to[1] # 0 /\ quick.to[2] # 0

\* The pointer, the page and the render loop, with CustomCursor active.
InitCursor == PageInit /\ innerWidth = MdBreakpoint /\ MountedInit /\ RevealInit /\ MagnetInit /\ CursorInit /\ SectionsMounted /\ HeroInit
NextCursor == CursorNext /\ UNCHANGED <<pageVars, lifeVars, revealVars, magnetVars, sectionVars, heroVars>>
SpecCursor == InitCursor /\ [][NextCursor]_vars

CursorActive ==
    /\ cursorMount.mounted
    /\ CursorTickers # {}
    /\ CursorMoves # {}

\* C11 (as stated): while the cursor is active, it is in hover state whenever
\* the pointer is over an element that is or is inside a link, button,
\* input, textarea or .hover-trigger, and in default state whenever it is
\* not, also after the page has scrolled under a resting pointer.
C11_Original ==
    CursorActive =>
        look = (IF Closest(ElementAt(clientAt, viewTop)) THEN HoverLook ELSE DefaultLook)

\* C16 (as stated): while the cursor is active the dot is where the tracked
\* pointer position (mouse.x, mouse.y) is, from activation onward.
C16_Original == CursorActive => dotAt = mouse

Remaining(i) == Abs(mouse[i] * PosUnits - pos[i])

\* C17: the follower update is frame-rate independent and never overshoots:
\* from every reachable state one tick of deltaRatio 2 leaves the follower
\* where two ticks of deltaRatio 1 leave it; every tick puts the follower
\* between its previous position and the pointer on each axis; and a tick of
\* deltaRatio k divides the remaining distance by 2^k, so with the pointer
\* held fixed the distance shrinks monotonically toward zero.
C17_FollowerSmoothing ==
    /\ [](\A i \in 1..2 :
            FollowerStep(pos[i], mouse[i], 2)
              = FollowerStep(FollowerStep(pos[i], mouse[i], 1), mouse[i], 1))
    /\ [][frames' # frames =>
            \A i \in 1..2 :
                /\ Min(pos[i], mouse[i] * PosUnits) <= pos'[i]
                /\ pos'[i] <= Max(pos[i], mouse[i] * PosUnits)
                /\ Remaining(i)' * (2 ^ (frames' - frames)) = Remaining(i)
                /\ (Remaining(i) > 0 => Remaining(i)' < Remaining(i))]_vars

\* The ticker has run for several frames while the follower was away from
\* the pointer, and is still on its way.
C17_Witness ==
    /\ frames >= 3
    /\ mouse = <<100, 50>>
    /\ \A i \in 1..2 : Remaining(i) > 0 /\ ringAt[i] = pos[i]
    /\ pos[1] < (MdBreakpoint \div 2) * PosUnits

\* The components mounting and unmounting, for every combination of
\* attached and missing refs and for both sides of the md breakpoint.
InitSetup ==
    /\ PageInit /\ Unmounted /\ attached \in [RefNames -> BOOLEAN]
    /\ RevealInit /\ MagnetInit /\ CursorIdle /\ SectionsInit /\ HeroInit
SetupNext ==
    \/ \E coarse \in BOOLEAN : MountCursor(coarse)
    \/ UnmountCursor
    \/ MountButton(<<"view-works", 0>>)
    \/ UnmountButton(<<"view-works", 0>>)
NextSetup ==
    \/ SetupNext /\ UNCHANGED <<pageVars, revealVars, magnetVars, cursorVars, sectionVars, heroVars>>
    \/ /\ \/ MountHero
          \/ MountServices
          \/ MountTicker
          \/ MountWorks
          \/ \E s \in Sections : UnmountSection(s)
       /\ UNCHANGED <<pageVars, lifeVars, revealVars, magnetVars, cursorVars, heroVars>>
SpecSetup == InitSetup /\ [][NextSetup]_vars

TitlePath == <<"hero", "main", "text", "title">>
Registered(s) == {a \in animations : a.section = s}
ScrollLinked(s) == {a.name[1] : a \in {x \in Registered(s) : x.drive = "scrub"}}

\* C12 (as stated): a HeroSection mounted with window.innerWidth < 768 has
\* registered no scroll-linked animation, and one mounted with
\* window.innerWidth >= 768 has registered all three (image parallax, text
\* fade/blur, title distortion).  The title is rendered, so its ref is attached.
C12_Original ==
    (sectionMount["hero"].mounted /\ attached["title"]) =>
        ScrollLinked("hero") =
            (IF sectionMount["hero"].mobile THEN {}
             ELSE {"parallax", "text-fade", "distortion"})

ButtonHandlers(b) == {l \in elementListeners : l[1] = b}
CursorRefMissing == ~attached["cursor"] \/ ~attached["follower"]
TickerRefMissing == ~attached["tickerContainer"] \/ ~attached["tickerSection"]

\* C19: a missing element reference makes the setup a no-op: a mounted
\* CustomCursor with a marker ref missing has no ticker callback and no
\* window listener; a mounted MagneticButton with its element missing has no
\* element listener; a mounted HeroSection with the title ref missing has
\* registered everything but the distortion tween; a mounted NarrativeTicker
\* with the container or section ref missing has a zero pin distance and a
\* zero translation; and a mount of CustomCursor or MagneticButton that takes
\* the early return changes nothing but the component's own mounted state.
C19_MissingRefs ==
    /\ []((cursorMount.mounted /\ CursorRefMissing) =>
            (CursorTickers = {} /\ CursorMoves = {}))
    /\ [](\A b \in Buttons :
            (buttonMount[b].mounted /\ ~attached["button"]) => ButtonHandlers(b) = {})
    /\ []((sectionMount["hero"].mounted /\ ~attached["title"]) =>
            Registered("hero") =
                {a \in HeroAnimations(sectionMount["hero"].mobile, TitlePath) :
                    a.name[1] # "distortion"})
    /\ []((sectionMount["ticker"].mounted /\ TickerRefMissing) =>
            (tickerPin = 0 /\ tickerXEnd = 0))
    /\ [][((cursorMount'.mounted /\ ~cursorMount.mounted /\ CursorRefMissing)
           \/ (\E b \in Buttons :
                  buttonMount'[b].mounted /\ ~buttonMount[b].mounted /\ ~attached["button"]))
          => UNCHANGED <<windowListeners, tickerListeners, elementListeners,
                         pageVars, sectionVars, cursorVars, magnetVars, revealVars>>]_vars

\* All four components are mounted, each with a ref missing.
C19_Witness ==
    /\ cursorMount.mounted /\ ~cursorMount.coarse /\ ~attached["follower"]
    /\ buttonMount[<<"view-works", 0>>].mounted /\ ~attached["button"]
    /\ sectionMount["hero"].mounted /\ ~attached["title"] /\ Registered("hero") # {}
    /\ sectionMount["ticker"].mounted /\ ~attached["tickerContainer"]
    /\ attached["tickerSection"] /\ attached["cursor"]

Classes == UNION {e.cls : e \in Elements}

\* C20: the animations of different sections write to disjoint sets of
\* elements: no element is a target of animations registered by two
\* sections, every target of a section lies in the subtree of that section's
\* root, and whatever class a section's callback selects by resolves only
\* inside that section's root (its root ref being attached, as it is on the
\* rendered page); in any order of mounting.
C20_DisjointSubtrees ==
    /\ \A a, b \in animations :
          a.section # b.section => a.targets \cap b.targets = {}
    /\ \A a \in animations : a.targets \subseteq Subtree(<<a.section>>)
    /\ \A s \in Sections :
          (sectionMount[s].mounted /\ attached["tickerSection"]) =>
              \A c \in Classes : Resolve(Scope(s), c) \subseteq Subtree(<<s>>)

\* All four sections are mounted and each has registered animations with
\* targets of its own.
C20_Witness ==
    /\ \A s \in Sections :
          sectionMount[s].mounted /\ (\E a \in Registered(s) : a.targets # {})
    /\ attached = AllAttached

\* NarrativeTicker mounted on the page: scrolling, frames, layout changes
\* and refreshes.
InitTicker == PageInit /\ innerWidth = MdBreakpoint /\ MountedInit /\ RevealInit /\ MagnetInit /\ CursorIdle /\ SectionsMounted /\ HeroInit
NextTicker == TickerNext /\ UNCHANGED <<pageVars, lifeVars, revealVars, magnetVars, cursorVars, heroVars>>
SpecTicker == InitTicker /\ [][NextTicker]_vars

\* S from the current widths, and whether the last measurement used them.
TickerS == tickerWidths.scrollWidth - tickerWidths.offsetWidth + Race
TickerFresh == tickerPin = Abs(TickerS) /\ Abs(tickerXEnd) = Abs(TickerS)

\* C18 (as stated): with S measured from the widths at the last refresh, the
\* pinned distance is |S| and the container's translation at scroll progress
\* p (the share of the pin the window has scrolled) is -S * p.
C18_Original ==
    (sectionMount["ticker"].mounted /\ TickerFresh) =>
        /\ tickerPin = Abs(TickerS)
        /\ TickerX * tickerPin = (-TickerS) * Min(tickerScroll, tickerPin)

\* C18 (amended): with S measured from the widths at mount or at the last
\* refresh, the pinned distance is |S| and the container's translation is
\* -S * q, where q is the progress of the scrubbed timeline, which follows
\* the scroll progress p and equals it once the scrub has caught up; a
\* refresh recomputes both from the current widths, and the pin length and
\* the final translation always have the same magnitude.
C18_PinAndTranslation ==
    /\ [](sectionMount["ticker"].mounted => tickerPin = Abs(tickerXEnd))
    /\ []((sectionMount["ticker"].mounted /\ TickerFresh) =>
            /\ tickerXEnd = -TickerS
            /\ TickerX * tickerPin = (-TickerS) * Min(tickerShown, tickerPin)
            /\ (tickerShown = tickerScroll =>
                  TickerX * tickerPin = (-TickerS) * Min(tickerScroll, tickerPin)))
    /\ [][(tickerWidths' = tickerWidths /\ <<tickerPin', tickerXEnd'>> # <<tickerPin, tickerXEnd>>)
            => (tickerPin' = Abs(TickerS)' /\ tickerXEnd' = -(TickerS'))]_vars

\* The layout has changed, ScrollTrigger has refreshed, and the scrub has
\* caught up with a scroll position inside the new pin.
C18_Witness ==
    /\ tickerWidths # TickerWidthsAtLoad
    /\ TickerFresh
    /\ tickerShown = tickerScroll
    /\ 0 < tickerScroll /\ tickerScroll < tickerPin
    /\ TickerX = -tickerScroll

\* HeroSection mounted on the page: the entrance timeline and the scroll.
InitHero == PageInit /\ MountedInit /\ RevealInit /\ MagnetInit /\ CursorIdle /\ SectionsMounted /\ HeroInit
NextHero == HeroNext /\ UNCHANGED <<pageVars, lifeVars, revealVars, magnetVars, cursorVars, sectionVars>>
SpecHero == InitHero /\ [][NextHero]_vars

\* C15 (as stated): the five steps of the hero entrance timeline start in the
\* order in which they were added: no step has started before a step added
\* earlier.
C15_Original ==
    \A i, j \in 1..Len(heroOrder) : i < j => heroOrder[i] < heroOrder[j]

\* C15 (amended): the steps start at 0, 0.8, 1.0, 2.2 and 1.8 s: the line
\* reveal, the meta reveal, the cover's wipe-in and its wipe-out start in the
\* order they were added, and the image scale-down, added last, starts after
\* the wipe-in and before the wipe-out.
C15_StartOrder ==
    /\ StepStarts = <<0, 80, 100, 220, 180>>
    /\ \E n \in 0..5 : heroOrder = SubSeq(<<1, 2, 3, 5, 4>>, 1, n)
    /\ \A k \in 1..Len(HeroIntro) :
          (\E i \in 1..Len(heroOrder) : heroOrder[i] = k) <=> StepStarts[k] <= heroTime

\* The image scale-down has started and the wipe-out has not.
C15_Witness ==
    /\ heroOrder = <<1, 2, 3, 5>>
    /\ heroTime >= 180 /\ heroTime < 220

ServicesReveal == <<"services", 0>>
ServiceRows == ServicesVisual(tween[ServicesReveal].t)
\* The top of services row i is above the bottom edge of the viewport.
RowEntered(i) == Layout.serviceRowTop[i] < scrollY + Layout.viewport
\* The top of the services section is above 70% of the viewport height.
SectionPast70 == 100 * (Layout.servicesTop - scrollY) < 70 * Layout.viewport

\* C13 (as stated): each services row has its own reveal, played forward
\* when that row itself enters the viewport: a row whose reveal is playing
\* forward and has left its hidden state has entered the viewport.
C13_Original ==
    \A i \in 1..Len(services) :
        (tween[ServicesReveal].dir = "forward" /\ ServiceRows[i].opacity > 0) => RowEntered(i)

\* C13 (amended): the services rows share one reveal, triggered by the
\* section: it plays forward exactly while the section's top is above 70% of
\* the viewport height and is reversed when the top goes back below it; the
\* rows move in list order, row i leaving its hidden state 0.1 s after row
\* i - 1, so that no row is ahead of an earlier one.
C13_SharedReveal ==
    /\ tween[ServicesReveal].dir = "forward" <=> SectionPast70
    /\ \A i \in 1..Len(services) :
          ServiceRows[i].opacity > 0 <=> tween[ServicesReveal].t > i - 1
    /\ \A i, j \in 1..Len(services) :
          i < j => ServiceRows[i].opacity >= ServiceRows[j].opacity

\* The shared reveal is playing forward: the last row is already off its
\* hidden state although it has not entered the viewport, and the first row
\* is ahead of it.
C13_Witness ==
    /\ tween[ServicesReveal].dir = "forward"
    /\ ServiceRows[4].opacity > 0
    /\ ~RowEntered(4)
    /\ ServiceRows[1].opacity > ServiceRows[4].opacity

RowReveal(idx) == <<"project-row", idx>>
\* The top edge of project row idx is above 85% of the viewport height.
RowPast85(idx) == 100 * (Layout.rowTop[idx] - scrollY) < 85 * Layout.viewport

\* C14: every project row is at y = 100, opacity 0 until its own top edge has
\* crossed 85% of the viewport height; its reveal plays forward exactly while
\* its own top edge is above that line, whatever the other rows do, runs to
\* y = 0, opacity 1, and is reversed when the edge goes back below the line.
C14_ProjectRows ==
    /\ [](\A idx \in 1..Len(projects) :
            /\ tween[RowReveal(idx)].dir = "forward" <=> RowPast85(idx)
            /\ (tween[RowReveal(idx)].dir = "paused" =>
                  Visual(RowReveal(idx)) = [y |-> 100 * 1000, opacity |-> 0])
            /\ ((tween[RowReveal(idx)].dir = "forward"
                    /\ tween[RowReveal(idx)].t = Duration(RowReveal(idx))) =>
                  Visual(RowReveal(idx)) = [y |-> 0, opacity |-> 1000]))
    /\ [][scrollY' = scrollY =>
            \A idx \in 1..Len(projects) :
               LET tw == tween[RowReveal(idx)] IN
               /\ (tw.dir = "forward" =>
                     tween'[RowReveal(idx)] = [tw EXCEPT !.t = Min(10, tw.t + FrameStep)])
               /\ (tw.dir = "backward" =>
                     tween'[RowReveal(idx)] = [tw EXCEPT !.t = Max(0, tw.t - FrameStep)])]_vars

\* Row 1 has been revealed completely while row 2 has never been triggered
\* and row 3 neither.
C14_Witness ==
    /\ tween[RowReveal(1)] = [t |-> 10, dir |-> "forward"]
    /\ Visual(RowReveal(1)) = [y |-> 0, opacity |-> 1000]
    /\ tween[RowReveal(2)].dir = "paused"
    /\ tween[RowReveal(3)].dir = "paused"

\* C21: loading is TRUE until something writes it, the only step that changes
\* it is the Preloader's completion callback, which sets it to FALSE, and once
\* FALSE it stays FALSE.
\* So the Preloader, rendered exactly while loading holds, is never rendered
\* again after it has gone; the callback runs only while nothing has written
\* loading yet, hence at most once, and cannot run once loading is FALSE; and
\* every other step taken while loading holds (a menu, navigation or button
\* click, a resize, the passing of time) leaves loading TRUE, the Preloader
\* rendered and its clock not set back.
C21_LoadingMonotone ==
    /\ [](writers.loading = {} => loading)
    /\ [](loading <=> PreloaderRendered)
    /\ [](~loading => ~ENABLED onComplete)
    /\ [][/\ (~loading => ~loading')
          /\ (~PreloaderRendered => ~PreloaderRendered')
          /\ (loading' # loading => onComplete /\ ~loading')
          /\ (onComplete => writers.loading = {})
          /\ (loading /\ ~onComplete =>
                 loading' /\ PreloaderRendered' /\ elapsed' >= elapsed)]_vars

\* The preloader has completed and the menu has since been opened, used and
\* closed with every control that can do it.
C21_Witness ==
    /\ ~loading /\ ~PreloaderRendered
    /\ writers.loading = {<<"preloader", 0>>}
    /\ elapsed > PreloaderDelay + PreloaderDuration
    /\ lastControl = <<"close-button", 0>>
    /\ writers.isMobileMenuOpen = MenuControls
====
